---- MODULE Spec2Model ----
\* Model of albumentations/core/utils.py: DataProcessor (label packing,
\* format dispatch, filtering, alias registration) and to_tuple.
EXTENDS Integers, Sequences, FiniteSets, TLC

VARIABLES
    data_fields,   \* DataProcessor.data_fields: list of stream names
    format,        \* params.format
    label_fields,  \* params.label_fields (None or a list of names)
    data,          \* the sample dict: key -> list (streams and label columns)
    image,         \* spatial extent derived from data["image"] by get_shape
    phase,         \* position of the caller in the preprocess/postprocess cycle
    err,           \* exception raised by the last call ("none" when it returned)
    errinfo,       \* the two counts formatted into the length-mismatch message
    orig,          \* history: the sample as handed to preprocess
    attached,      \* history: the sample as left by a completed preprocess
    kept,          \* history: per stream, the records that survived filter
    cc,            \* direct call of check_and_convert: <<direction, err, result>>
    supplied,      \* history: alias names given to add_targets with the default target
    calls,         \* number of add_targets calls made
    tt             \* to_tuple call: <<state, param, low, bias, result>>

vars == <<data_fields, format, label_fields, data, image, phase, err, errinfo,
          orig, attached, kept, cc, supplied, calls, tt>>

----------------------------------------------------------------------------
\* Bounds of the model

MaxLen == 2       \* records per stream, values per label column
MaxCalls == 3     \* add_targets calls
MaxMap == 2       \* entries of one additional_targets dict
MaxAbs == 2       \* to_tuple scalars range over -MaxAbs..MaxAbs

----------------------------------------------------------------------------
\* Names and input domains

default_data_name == "bboxes"
CanonicalFormat == "albumentations"
Formats == {"albumentations", "coco"}

None == <<"None">>                      \* params.label_fields is None
LabelFieldChoices == {None, <<>>, <<"l1">>, <<"l1", "l2">>}

StreamKeys == {"bboxes", "bboxes2"}     \* stream keys a sample may hold
Coords == {0, 1, 2}                     \* first coordinate of an input record
Directions == {"to", "from", "sideways"}
Extents == {1, 2, 3}                    \* image extents; 3 holds every record

FieldNo(field) == IF field = "l1" THEN 1 ELSE 2

\* The label value at position i of the column of `field`: values are
\* pairwise distinct so that any misplaced label is visible.
LabelValue(field, i) == 10 * FieldNo(field) + i

Column(field, n) == [i \in 1..n |-> LabelValue(field, i)]

\* Input records: two coordinates.
Records == {<<x, 1>> : x \in Coords}
Streams == UNION {[1..n -> Records] : n \in 0..MaxLen}

FieldSet(lf) == IF lf = None THEN {} ELSE {lf[i] : i \in 1..Len(lf)}

\* Samples for a processor with label fields lf: any subset of the stream
\* keys the processor handles, each with any stream, and one column per
\* declared label field.
Samples(lf) ==
    UNION {
      UNION {
        { [k \in P \cup FieldSet(lf) |->
              IF k \in P THEN recs[k] ELSE Column(k, lens[k])]
          : lens \in [FieldSet(lf) -> 0..MaxLen] }
        : recs \in [P -> Streams] }
      : P \in SUBSET {data_fields[s] : s \in 1..Len(data_fields)} }

Min(a, b) == IF a < b THEN a ELSE b

----------------------------------------------------------------------------
\* Format strategy (abstract in DataProcessor)

\* filter: drop records whose first coordinate lies outside the extent.
filter(recs, image_shape) ==
    SelectSeq(recs, LAMBDA r : r[1] < image_shape)

\* check: canonical records need min <= max.
check(recs, image_shape) ==
    \A i \in 1..Len(recs) : recs[i][1] <= recs[i][2]

\* (x, w, labels...) -> (x_min, x_max, labels...)
convert_to_albumentations(recs, image_shape) ==
    [i \in 1..Len(recs) |-> [recs[i] EXCEPT ![2] = recs[i][1] + recs[i][2]]]

\* (x_min, x_max, labels...) -> (x, w, labels...)
convert_from_albumentations(recs, image_shape) ==
    [i \in 1..Len(recs) |-> [recs[i] EXCEPT ![2] = recs[i][2] - recs[i][1]]]

----------------------------------------------------------------------------
\* DataProcessor

Ok(d) == [err |-> "none", info |-> <<>>, data |-> d]
Raise(e, info, d) == [err |-> e, info |-> info, data |-> d]

check_and_convert(recs, image_shape, direction) ==
    IF format = CanonicalFormat
    THEN IF check(recs, image_shape)
         THEN [err |-> "none", val |-> recs]
         ELSE [err |-> "CheckError", val |-> <<>>]
    ELSE IF direction = "to"
    THEN [err |-> "none", val |-> convert_to_albumentations(recs, image_shape)]
    ELSE IF direction = "from"
    THEN [err |-> "none", val |-> convert_from_albumentations(recs, image_shape)]
    ELSE [err |-> "ValueError", val |-> <<>>]

\* zip(data[data_name], data[field]) with the field value appended
AddField(recs, col) ==
    [i \in 1..Min(Len(recs), Len(col)) |-> Append(recs[i], col[i])]

\* AddLabels comparing the lengths with < instead of !=
RECURSIVE AddLabelsShortOnly(_, _, _)
AddLabelsShortOnly(d, s, f) ==
    IF s > Len(data_fields) THEN Ok(d)
    ELSE LET data_name == data_fields[s] IN
         IF data_name \notin DOMAIN d \/ f > Len(label_fields)
         THEN AddLabelsShortOnly(d, s + 1, 1)
         ELSE LET field == label_fields[f] IN
              IF Len(d[data_name]) < Len(d[field])
              THEN Raise("ValueError", <<Len(d[data_name]), Len(d[field])>>, d)
              ELSE AddLabelsShortOnly([d EXCEPT ![data_name] =
                                  AddField(d[data_name], d[field])], s, f + 1)

\* The nested loops of add_label_fields_to_data, at stream s and field f.
RECURSIVE AddLabels(_, _, _)
AddLabels(d, s, f) ==
    IF s > Len(data_fields) THEN Ok(d)
    ELSE LET data_name == data_fields[s] IN
         IF data_name \notin DOMAIN d \/ f > Len(label_fields)
         THEN AddLabels(d, s + 1, 1)
         ELSE LET field == label_fields[f] IN
              IF ~(Len(d[data_name]) = Len(d[field]))
              THEN Raise("ValueError", <<Len(d[data_name]), Len(d[field])>>, d)
              ELSE AddLabels([d EXCEPT ![data_name] =
                                  AddField(d[data_name], d[field])], s, f + 1)

add_label_fields_to_data(d) ==
    IF label_fields = None THEN Ok(d) ELSE AddLabels(d, 1, 1)

\* PreLoop converting the default stream only
PreLoopDefaultOnly(d, image_shape, s) ==
    IF default_data_name \notin DOMAIN d THEN Ok(d)
    ELSE LET r == check_and_convert(d[default_data_name], image_shape, "to") IN
         IF r.err # "none" THEN Raise(r.err, <<>>, d)
         ELSE Ok([d EXCEPT ![default_data_name] = r.val])

\* The loop of preprocess over data_fields, at stream s.
RECURSIVE PreLoop(_, _, _)
PreLoop(d, image_shape, s) ==
    IF s > Len(data_fields) THEN Ok(d)
    ELSE LET data_name == data_fields[s] IN
         IF data_name \notin DOMAIN d THEN PreLoop(d, image_shape, s + 1)
         ELSE LET r == check_and_convert(d[data_name], image_shape, "to") IN
              IF r.err # "none" THEN Raise(r.err, <<>>, d)
              ELSE PreLoop([d EXCEPT ![data_name] = r.val], image_shape, s + 1)

preprocess(d, image_shape) ==
    LET r == add_label_fields_to_data(d) IN
    IF r.err # "none" THEN r ELSE PreLoop(r.data, image_shape, 1)

\* LabelColumn reading the last value of every record for every field
LabelColumnLast(recs, label_fields_len, f) ==
    [i \in 1..Len(recs) |-> recs[i][Len(recs[i])]]

\* One label column rebuilt from the tails of a stream's records.
LabelColumn(recs, label_fields_len, f) ==
    [i \in 1..Len(recs) |-> recs[i][Len(recs[i]) - label_fields_len + f]]

\* The enumerate loop of remove_label_fields_from_data for one stream.
RECURSIVE RemoveFields(_, _, _)
RemoveFields(d, data_name, f) ==
    IF f > Len(label_fields) THEN d
    ELSE RemoveFields([d EXCEPT ![label_fields[f]] =
                           LabelColumn(d[data_name], Len(label_fields), f)],
                      data_name, f + 1)

StripLabels(recs, label_fields_len) ==
    [i \in 1..Len(recs) |-> SubSeq(recs[i], 1, Len(recs[i]) - label_fields_len)]

RECURSIVE RemoveLoop(_, _)
RemoveLoop(d, s) ==
    IF s > Len(data_fields) THEN d
    ELSE LET data_name == data_fields[s] IN
         IF data_name \notin DOMAIN d THEN RemoveLoop(d, s + 1)
         ELSE LET d1 == RemoveFields(d, data_name, 1) IN
              RemoveLoop([d1 EXCEPT ![data_name] =
                              StripLabels(d1[data_name], Len(label_fields))],
                         s + 1)

remove_label_fields_from_data(d) ==
    IF label_fields = None \/ label_fields = <<>> THEN d ELSE RemoveLoop(d, 1)

\* The loop of postprocess over data_fields, at stream s.
RECURSIVE PostLoop(_, _, _)
PostLoop(d, image_shape, s) ==
    IF s > Len(data_fields) THEN Ok(d)
    ELSE LET data_name == data_fields[s] IN
         IF data_name \notin DOMAIN d THEN PostLoop(d, image_shape, s + 1)
         ELSE LET d1 == [d EXCEPT ![data_name] = filter(d[data_name], image_shape)]
                  r == check_and_convert(d1[data_name], image_shape, "from")
              IN IF r.err # "none" THEN Raise(r.err, <<>>, d1)
                 ELSE PostLoop([d1 EXCEPT ![data_name] = r.val], image_shape, s + 1)

postprocess(d, image_shape) ==
    LET r == PostLoop(d, image_shape, 1) IN
    IF r.err # "none" THEN r ELSE Ok(remove_label_fields_from_data(r.data))

\* add_targets without the test for names already present
RECURSIVE add_targets_again(_, _)
add_targets_again(fields, additional_targets) ==
    IF additional_targets = <<>> THEN fields
    ELSE LET k == Head(additional_targets)[1]
             v == Head(additional_targets)[2]
         IN add_targets_again(IF v = default_data_name
                              THEN Append(fields, k) ELSE fields,
                              Tail(additional_targets))

\* add_targets over a dict given as its items in insertion order
RECURSIVE add_targets(_, _)
add_targets(fields, additional_targets) ==
    IF additional_targets = <<>> THEN fields
    ELSE LET k == Head(additional_targets)[1]
             v == Head(additional_targets)[2]
             in_fields == \E i \in 1..Len(fields) : fields[i] = k
         IN add_targets(IF v = default_data_name /\ ~in_fields
                        THEN Append(fields, k) ELSE fields,
                        Tail(additional_targets))

----------------------------------------------------------------------------
\* to_tuple.  An argument is <<kind, values>>: a scalar s is <<"scalar", <<s>>>>,
\* a sequence q is <<"seq", q>>, an absent argument is <<"none", <<>>>> and a
\* value that is neither a number nor a sequence is <<"other", <<>>>>.

PAIR == 2

NoneArg == <<"none", <<>>>>
Scalar(s) == <<"scalar", <<s>>>>
SeqArg(q) == <<"seq", q>>
OtherArg == <<"other", <<>>>>

TupleError == <<"ValueError", 0, 0>>

\* to_tuple testing low and bias for truth instead of for None
to_tuple_truthy(param, low, bias) ==
    IF (low # NoneArg /\ low # Scalar(0)) /\ (bias # NoneArg /\ bias # Scalar(0))
    THEN TupleError
    ELSE IF ~(  (param[1] = "seq" /\ Len(param[2]) = PAIR)
             \/ param[1] = "scalar") THEN TupleError
    ELSE LET p == param[2]
             mm == IF param[1] = "seq"
                   THEN <<IF p[1] <= p[2] THEN p[1] ELSE p[2],
                          IF p[1] >= p[2] THEN p[1] ELSE p[2]>>
                   ELSE IF low[1] = "scalar"
                   THEN IF low[2][1] < p[1] THEN <<low[2][1], p[1]>>
                                            ELSE <<p[1], low[2][1]>>
                   ELSE <<-p[1], p[1]>>
         IN IF bias # NoneArg /\ bias # Scalar(0)
            THEN <<"ok", bias[2][1] + mm[1], bias[2][1] + mm[2]>>
            ELSE <<"ok", mm[1], mm[2]>>

to_tuple(param, low, bias) ==
    IF low # NoneArg /\ bias # NoneArg THEN TupleError
    ELSE IF ~(  (param[1] = "seq" /\ Len(param[2]) = PAIR)
             \/ param[1] = "scalar") THEN TupleError
    ELSE LET p == param[2]
             mm == IF param[1] = "seq"
                   THEN <<IF p[1] <= p[2] THEN p[1] ELSE p[2],
                          IF p[1] >= p[2] THEN p[1] ELSE p[2]>>
                   ELSE IF low[1] = "scalar"
                   THEN IF low[2][1] < p[1] THEN <<low[2][1], p[1]>>
                                            ELSE <<p[1], low[2][1]>>
                   ELSE <<-p[1], p[1]>>
         IN IF bias # NoneArg
            THEN <<"ok", bias[2][1] + mm[1], bias[2][1] + mm[2]>>
            ELSE <<"ok", mm[1], mm[2]>>

Scalars == (-MaxAbs)..MaxAbs
Pairs == {<<a, b>> : a \in Scalars, b \in Scalars}
ParamArgs == {Scalar(s) : s \in Scalars} \cup {SeqArg(q) : q \in Pairs}
             \cup {SeqArg(<<>>), SeqArg(<<1>>), SeqArg(<<1, 0, 1>>), OtherArg}
LowArgs == {NoneArg} \cup {Scalar(s) : s \in Scalars} \cup {SeqArg(<<0, 1>>)}
BiasArgs == {NoneArg} \cup {Scalar(s) : s \in Scalars}

----------------------------------------------------------------------------
\* Specifications

EmptySample == [k \in {} |-> <<>>]
NoCall == <<"", "none", <<>>>>
NoTuple == <<"idle", NoneArg, NoneArg, NoneArg, TupleError>>

\* additional_targets given to the constructor
CtorTargets == {<<>>, <<<<"bboxes2", "bboxes">>>>, <<<<"bboxes2", "keypoints">>>>}

\* additional_targets dicts for add_targets: items with distinct keys
AliasNames == {"bboxes", "bboxes2", "bboxes3"}
TargetNames == {"bboxes", "keypoints"}
TargetDicts ==
    {q \in UNION {[1..n -> AliasNames \X TargetNames] : n \in 0..MaxMap} :
        \A i, j \in 1..Len(q) : i # j => q[i][1] # q[j][1]}

Present(d) == {data_fields[s] : s \in 1..Len(data_fields)} \cap DOMAIN d

Idle ==
    /\ data = EmptySample /\ image = 1 /\ phase = "new"
    /\ err = "none" /\ errinfo = <<>>
    /\ orig = EmptySample /\ attached = EmptySample /\ kept = EmptySample
    /\ cc = NoCall /\ supplied = <<>> /\ calls = 0 /\ tt = NoTuple

\* DataProcessor.__init__
Init ==
    /\ format \in Formats
    /\ label_fields \in LabelFieldChoices
    /\ \E at \in CtorTargets :
           data_fields = add_targets(<<default_data_name>>, at)
    /\ Idle

Preprocess ==
    /\ phase = "new"
    /\ \E sample \in Samples(label_fields), image_shape \in Extents :
         LET r == preprocess(sample, image_shape) IN
         /\ orig' = sample
         /\ image' = image_shape
         /\ data' = r.data
         /\ err' = r.err
         /\ errinfo' = r.info
         /\ phase' = IF r.err = "none" THEN "preprocessed" ELSE "pre_failed"
         /\ attached' = IF r.err = "none" THEN r.data ELSE attached
    /\ UNCHANGED <<data_fields, format, label_fields, kept, cc, supplied, calls, tt>>

\* The transform stage resizes the image between preprocess and postprocess.
Resize ==
    /\ phase = "preprocessed"
    /\ \E e \in Extents \ {image} : image' = e
    /\ UNCHANGED <<data_fields, format, label_fields, data, phase, err, errinfo,
                   orig, attached, kept, cc, supplied, calls, tt>>

Postprocess ==
    /\ phase = "preprocessed"
    /\ LET r == postprocess(data, image) IN
         /\ data' = r.data
         /\ err' = r.err
         /\ errinfo' = r.info
         /\ phase' = IF r.err = "none" THEN "postprocessed" ELSE "post_failed"
    /\ kept' = [n \in Present(data) |-> filter(data[n], image)]
    /\ UNCHANGED <<data_fields, format, label_fields, image, orig, attached,
                   cc, supplied, calls, tt>>

\* A direct call of the dispatcher with any direction token.
CheckAndConvert ==
    /\ phase = "new"
    /\ \E recs \in Streams, image_shape \in Extents, direction \in Directions :
         LET r == check_and_convert(recs, image_shape, direction) IN
         /\ cc' = <<direction, r.err, r.val>>
         /\ image' = image_shape
    /\ phase' = "called"
    /\ UNCHANGED <<data_fields, format, label_fields, data, err, errinfo,
                   orig, attached, kept, supplied, calls, tt>>

Next == Preprocess \/ Resize \/ Postprocess \/ CheckAndConvert

Spec == Init /\ [][Next]_vars

\* Alias registration
InitTargets ==
    /\ format = CanonicalFormat
    /\ label_fields = None
    /\ data_fields = <<default_data_name>>
    /\ Idle

RECURSIVE AcceptedKeys(_)
AcceptedKeys(at) ==
    IF at = <<>> THEN <<>>
    ELSE IF Head(at)[2] = default_data_name
         THEN <<Head(at)[1]>> \o AcceptedKeys(Tail(at))
         ELSE AcceptedKeys(Tail(at))

AddTargets ==
    /\ calls < MaxCalls
    /\ \E at \in TargetDicts :
         /\ data_fields' = add_targets(data_fields, at)
         /\ supplied' = supplied \o AcceptedKeys(at)
    /\ calls' = calls + 1
    /\ UNCHANGED <<format, label_fields, data, image, phase, err, errinfo,
                   orig, attached, kept, cc, tt>>

NextTargets == AddTargets

SpecTargets == InitTargets /\ [][NextTargets]_vars

\* to_tuple
InitTuple ==
    /\ format = CanonicalFormat
    /\ label_fields = None
    /\ data_fields = <<default_data_name>>
    /\ data = EmptySample /\ image = 1 /\ phase = "new"
    /\ err = "none" /\ errinfo = <<>>
    /\ orig = EmptySample /\ attached = EmptySample /\ kept = EmptySample
    /\ cc = NoCall /\ supplied = <<>> /\ calls = 0
    /\ \E param \in ParamArgs, low \in LowArgs, bias \in BiasArgs :
           tt = <<"args", param, low, bias, TupleError>>

ToTuple ==
    /\ tt[1] = "args"
    /\ tt' = <<"done", tt[2], tt[3], tt[4], to_tuple(tt[2], tt[3], tt[4])>>
    /\ UNCHANGED <<data_fields, format, label_fields, data, image, phase, err,
                   errinfo, orig, attached, kept, cc, supplied, calls>>

NextTuple == ToTuple

SpecTuple == InitTuple /\ [][NextTuple]_vars

----------------------------------------------------------------------------
\* Properties

Attached(n) == n \in Present(orig)
Declared == IF label_fields = None THEN <<>> ELSE label_fields

NoneRemoved == \A n \in DOMAIN kept : Len(kept[n]) = Len(attached[n])

\* C1: with the canonical format, preprocess followed by a postprocess whose
\* filter removes no record leaves every stream and every label column of the
\* sample equal to what the caller handed in, for any number of records and
\* any declared label fields (none, empty, one or two).
C1_LabelRoundTrip ==
    (phase = "postprocessed" /\ format = CanonicalFormat /\ NoneRemoved)
        => /\ DOMAIN data = DOMAIN orig
           /\ \A k \in DOMAIN orig : data[k] = orig[k]

C1_Witness ==
    /\ phase = "postprocessed" /\ format = CanonicalFormat /\ NoneRemoved
    /\ Len(Declared) = 2
    /\ "bboxes" \in Present(orig) /\ Len(orig["bboxes"]) >= 2
    /\ data["bboxes"] = orig["bboxes"]

\* C2: after postprocess, for every stream of data_fields present in the
\* sample and every declared label field, the stored label column is as long
\* as the stream and its i-th value is the label carried by the stream's i-th
\* surviving record.
C2_LabelCorrespondence ==
    phase = "postprocessed" =>
        \A n \in Present(data) : \A f \in 1..Len(Declared) :
            /\ Len(data[Declared[f]]) = Len(data[n])
            /\ \A i \in 1..Len(kept[n]) :
                 data[Declared[f]][i] =
                     kept[n][i][Len(kept[n][i]) - Len(Declared) + f]

\* C3: when preprocess raises the length-mismatch error, every stream key of
\* the sample still holds the records the caller handed in.
C3_NoMutationBeforeMismatch ==
    (phase = "pre_failed" /\ err = "ValueError")
        => \A k \in StreamKeys \cap DOMAIN orig : data[k] = orig[k]

Mismatched(n, f) == Len(orig[n]) # Len(orig[Declared[f]])
HasMismatch == \E n \in Present(orig) : \E f \in 1..Len(Declared) : Mismatched(n, f)

\* C4: preprocess raises the length-mismatch error, carrying the length of a
\* stream and the differing length of a label column, exactly when some present
\* stream of data_fields and some declared label column differ in length; it
\* then does not complete, and it never raises that error when all lengths match.
C4_MismatchRaises ==
    phase \notin {"new", "called"} =>
        /\ HasMismatch =>
              /\ phase = "pre_failed" /\ err = "ValueError"
              /\ \E n \in Present(orig) : \E f \in 1..Len(Declared) :
                    /\ Mismatched(n, f)
                    /\ errinfo = <<Len(orig[n]), Len(orig[Declared[f]])>>
        /\ ~HasMismatch => ~(phase = "pre_failed" /\ err = "ValueError")

C4_Witness ==
    /\ phase = "pre_failed" /\ err = "ValueError"
    /\ Len(Declared) = 2
    /\ \E n \in Present(orig) : ~Mismatched(n, 1) /\ Mismatched(n, 2)

AliasIdentical ==
    /\ Len(data_fields) = 2 /\ data_fields[2] = "bboxes2"
    /\ {"bboxes", "bboxes2"} \subseteq DOMAIN orig
    /\ orig["bboxes"] = orig["bboxes2"]

\* C5: with the alias registered for the default stream and identical records
\* under both names, the two streams are identical after preprocess and
\* identical again after postprocess.
C5_AliasEquivalence ==
    (AliasIdentical /\ phase \in {"preprocessed", "postprocessed"})
        => data["bboxes"] = data["bboxes2"]

C5_Witness ==
    /\ AliasIdentical /\ phase = "postprocessed" /\ format = "coco"
    /\ Len(Declared) = 2
    /\ Len(orig["bboxes"]) >= 2 /\ Len(data["bboxes2"]) = 1

\* Reference values of the claim for to_tuple
RefMin(a, b) == IF a <= b THEN a ELSE b
RefMax(a, b) == IF a <= b THEN b ELSE a
IsScalar(a) == a[1] = "scalar"
IsPair(a) == a[1] = "seq" /\ Len(a[2]) = 2
ValueOf(a) == a[2][1]
Shift(b) == IF b = NoneArg THEN 0 ELSE ValueOf(b)

\* C6: to_tuple equals its reference: both low and bias given is an error
\* whatever param is; a param that is neither a scalar nor a pair is an error;
\* a pair gives (min, max) regardless of low; a scalar with scalar low gives the
\* two sorted; a scalar alone gives (-s, s); a given bias shifts both endpoints.
C6_ToTupleReference ==
    tt[1] = "done" =>
        LET param == tt[2]  low == tt[3]  bias == tt[4]  res == tt[5] IN
        /\ (low # NoneArg /\ bias # NoneArg) => res[1] = "ValueError"
        /\ (~IsScalar(param) /\ ~IsPair(param)) => res[1] = "ValueError"
        /\ (~(low # NoneArg /\ bias # NoneArg) /\ IsPair(param)) =>
              res = <<"ok", RefMin(param[2][1], param[2][2]) + Shift(bias),
                            RefMax(param[2][1], param[2][2]) + Shift(bias)>>
        /\ (IsScalar(param) /\ IsScalar(low) /\ bias = NoneArg) =>
              res = <<"ok", RefMin(ValueOf(low), ValueOf(param)),
                            RefMax(ValueOf(low), ValueOf(param))>>
        /\ (IsScalar(param) /\ low = NoneArg) =>
              res = <<"ok", Shift(bias) - ValueOf(param),
                            Shift(bias) + ValueOf(param)>>

C6_Witness ==
    /\ tt[1] = "done"
    /\ tt[2] = Scalar(2) /\ tt[3] = NoneArg /\ tt[4] = Scalar(0)
    /\ tt[5] = <<"ok", -2, 2>>

\* C7: every pair to_tuple returns has its first element less than or equal
\* to its second.
C7_MinMaxOrdered ==
    (tt[1] = "done" /\ tt[5][1] = "ok") => tt[5][2] <= tt[5][3]

RECURSIVE FirstOccurrences(_, _)
FirstOccurrences(seen, q) ==
    IF q = <<>> THEN seen
    ELSE FirstOccurrences(
             IF \E i \in 1..Len(seen) : seen[i] = Head(q)
             THEN seen ELSE Append(seen, Head(q)),
             Tail(q))

\* C8: data_fields starts with the default stream name, holds no name twice,
\* and is the default name followed by the aliases supplied with the default
\* stream as target, each once, in order of first registration.
C8_DataFields ==
    /\ data_fields[1] = default_data_name
    /\ \A i, j \in 1..Len(data_fields) :
           i # j => data_fields[i] # data_fields[j]
    /\ data_fields = FirstOccurrences(<<default_data_name>>, supplied)

C8_Witness ==
    /\ data_fields = <<"bboxes", "bboxes3", "bboxes2">>
    /\ Len(supplied) >= 4
    /\ calls = 3

\* C9: for each stream present, the stream returned by postprocess holds the
\* surviving records in their earlier relative order, and each label column
\* returned holds exactly the survivors' labels in that order.
C9_FilterOrder ==
    phase = "postprocessed" =>
        \A n \in Present(data) :
            /\ Len(data[n]) = Len(kept[n])
            /\ \A i \in 1..Len(data[n]) : data[n][i][1] = kept[n][i][1]
            /\ \A f \in 1..Len(Declared) :
                 LET col == data[Declared[f]] IN
                 /\ \A i, j \in 1..Len(col) : i < j => col[i] < col[j]
                 /\ {col[i] : i \in 1..Len(col)} =
                      {kept[n][i][Len(kept[n][i]) - Len(Declared) + f]
                           : i \in 1..Len(kept[n])}

\* C10: check_and_convert called with a direction other than "to" or "from"
\* fails and returns no records, whatever the format.
C10_InvalidDirection ==
    (phase = "called" /\ cc[1] \notin {"to", "from"})
        => cc[2] # "none" /\ cc[3] = <<>>

====
